---- MODULE Spec2Model ----
(***************************************************************************)
(* A model of the VCS multiphase equilibrium solver front end              *)
(* (VCS_SOLVE: constructor, vcs, vcs_prob_specifyFully, vcs_prob_update,   *)
(* vcs_VolTotal) of vcs_solve.cpp, and of two programs beside it: the      *)
(* naming and slicing of Solution objects (base.pyx) and the import of a   *)
(* kinetics mechanism (importKinetics.cpp).                                *)
(*                                                                         *)
(* Conventions                                                             *)
(*  - indices are 1-based: source index i is model index i+1; the value    *)
(*    npos is 0, which is no index.                                        *)
(*  - amounts (mole numbers, element abundances, voltages) are integers    *)
(*    in units of 1.0E-9, so the constructor's charge-neutrality           *)
(*    threshold 1.0E-9 is 1 unit.                                          *)
(*  - a mole fraction is a pair <<numerator, denominator>>.                *)
(*  - temperature and pressure are set and read together everywhere in     *)
(*    the source; the model carries the temperature only.                  *)
(***************************************************************************)
EXTENDS Integers, Sequences, FiniteSets, TLC

\* ------------------------------------------------------------------ bounds
MaxMoles == 2
MaxIt == 2
MaxPidSpecies == 3
MaxPidPhases == 2
MaxSolutions == 3
MaxIncl == 2

\* ------------------------------------------------------- program constants
VCS_SUCCESS == 0
npos == 0
ChargeNeutralityTol == 1
VCS_PUB_BAD == -3
VCS_FAILED_CONVERGENCE == -1
VCS_RANGE_ERROR == 1

Temperatures == {300, 400}
Potentials == {-1, 0, 1}

\* ----------------------------------------------------------------- helpers
RECURSIVE SumSeq(_)
SumSeq(s) == IF s = <<>> THEN 0 ELSE Head(s) + SumSeq(Tail(s))

Abs(x) == IF x < 0 THEN -x ELSE x

Min(a, b) == IF a < b THEN a ELSE b

FracEq(a, b) == a[1] * b[2] = b[1] * a[2]

FracAdd(a, b) == <<a[1] * b[2] + b[1] * a[2], a[2] * b[2]>>

RECURSIVE FracSum(_)
FracSum(s) == IF s = <<>> THEN <<0, 1>> ELSE FracAdd(Head(s), FracSum(Tail(s)))

\* ------------------------------------------------- the external mixtures
\* Each mixture is what the MultiPhase object and its ThermoPhase objects
\* deliver to the constructor: the species count of each phase, the element
\* types and the formula matrix assembled from the phases, the species
\* charges and the chemical potentials the phases report.
MixtureNames == {"AB", "AB_C", "ION", "WIDE", "ZROW", "LAT", "NOEL", "NOSP", "EMPTY"}

Mixture(name) ==
    CASE name = "AB" ->
           [sizes |-> <<2>>, elType |-> <<"NORMAL">>,
            fm |-> << <<1>>, <<1>> >>, charge |-> <<0, 0>>, mu |-> <<1, 0>>]
      [] name = "AB_C" ->
           [sizes |-> <<2, 1>>, elType |-> <<"NORMAL">>,
            fm |-> << <<1>>, <<1>>, <<1>> >>, charge |-> <<0, 0, 0>>,
            mu |-> <<1, 0, 1>>]
      [] name = "ION" ->
           [sizes |-> <<3, 1>>,
            elType |-> <<"NORMAL", "CHARGENEUTRALITY", "ELECTRONCHARGE">>,
            fm |-> << <<1, 1, 0>>, <<1, -1, 0>>, <<2, 0, 0>>, <<0, 0, 1>> >>,
            charge |-> <<1, -1, 0, -1>>, mu |-> <<1, 1, 0, 0>>]
      [] name = "WIDE" ->
           [sizes |-> <<1>>, elType |-> <<"NORMAL", "NORMAL">>,
            fm |-> << <<1, 1>> >>, charge |-> <<0>>, mu |-> <<0>>]
      [] name = "ZROW" ->
           [sizes |-> <<2>>, elType |-> <<"NORMAL">>,
            fm |-> << <<1>>, <<0>> >>, charge |-> <<0, 0>>, mu |-> <<0, 0>>]
      [] name = "LAT" ->
           [sizes |-> <<1>>, elType |-> <<"NORMAL", "LATTICERATIO">>,
            fm |-> << <<1, -1>> >>, charge |-> <<0>>, mu |-> <<0>>]
      [] name = "NOEL" ->
           [sizes |-> <<1>>, elType |-> <<>>,
            fm |-> << <<>> >>, charge |-> <<0>>, mu |-> <<0>>]
      [] name = "NOSP" ->
           [sizes |-> <<0>>, elType |-> <<"NORMAL">>,
            fm |-> <<>>, charge |-> <<>>, mu |-> <<>>]
      [] OTHER ->
           [sizes |-> <<>>, elType |-> <<>>, fm |-> <<>>, charge |-> <<>>,
            mu |-> <<>>]

nSpecies(name) == Len(Mixture(name).fm)
nPhases(name) == Len(Mixture(name).sizes)
nElements(name) == Len(Mixture(name).elType)
phaseNSpecies(name, iph) == Mixture(name).sizes[iph]

\* Global index of local species k of phase iph: the running counter kT.
spGlobalIndex(name, iph, k) ==
    SumSeq(SubSeq(Mixture(name).sizes, 1, iph - 1)) + k

\* PhaseID[kT] = iphase, as the constructor's phase loop assigns it.
PhaseIDOf(name, kT) ==
    CHOOSE iph \in 1..nPhases(name) :
        /\ spGlobalIndex(name, iph, 1) <= kT
        /\ kT <= spGlobalIndex(name, iph, phaseNSpecies(name, iph))

\* vcs_VolPhase::transferElementsFM: the phase is a single charged species
\* whose voltage is the independent unknown.
phiVarIndex(name, iph) ==
    IF /\ phaseNSpecies(name, iph) = 1
       /\ Mixture(name).charge[spGlobalIndex(name, iph, 1)] # 0
    THEN 1 ELSE npos

speciesUnknownType(name, iph, k) ==
    IF phiVarIndex(name, iph) = k THEN "INTERFACIALVOLTAGE" ELSE "MOLNUM"

SpeciesUnknownTypeOf(name, kT) ==
    LET iph == PhaseIDOf(name, kT)
    IN  speciesUnknownType(name, iph, kT - spGlobalIndex(name, iph, 1) + 1)

\* ------------------------------------------------------------ the state
VARIABLES
    \* the caller's objects
    mix_name, mix_moles, mix_temperature, phase_temp, phase_phi,
    \* the solver object
    solver, ctorError, pc,
    w, mf, m_gibbsSpecies, VPhaseList,
    m_molNumSpecies_old, m_speciesMapIndex, m_speciesStatus,
    m_speciesUnknownType, m_feSpecies_old, m_elemAbundancesGoal,
    m_formulaMatrix, m_VolPhaseList, m_temperature,
    m_numComponents, m_numRxnTot, m_numRxnRdc, m_numSpeciesRdc,
    m_numRxnMinorZeroed, Its,
    \* the call in progress and the last call's result
    vcs_maxit, tp_maxit, iconv, retn, outcome,
    \* what the constructor has read from the mixture so far
    mix_reads,
    \* the file-scope timing level and the instance's copy of it
    vcs_timing_print_lvl, m_timing_print_lvl,
    \* the species-to-phase map, the species counts the phase adapters
    \* declare, the outcome of the constructor's check of the map and the
    \* local indices it assigns
    PhaseID, VPhase_nSpecies, phaseIDCheck, m_speciesLocalPhaseIndex,
    \* base.pyx: the module's counter of phase identifiers, the Solution
    \* objects created so far and the names held by their C++ base objects
    phase_counts, solutions, base_name,
    \* importKinetics.cpp: the phases of the kinetics manager, the calls the
    \* last import made on it, that import's arguments and its result
    kin_phases, kin_calls, import_call, import_result

callerVars == <<mix_name, mix_moles, mix_temperature, phase_temp, phase_phi>>

publicVars == <<w, mf, m_gibbsSpecies, VPhaseList>>

privateVars ==
    <<m_molNumSpecies_old, m_speciesMapIndex, m_speciesStatus,
      m_speciesUnknownType, m_feSpecies_old, m_elemAbundancesGoal,
      m_formulaMatrix, m_VolPhaseList, m_temperature>>

countVars ==
    <<m_numComponents, m_numRxnTot, m_numRxnRdc, m_numSpeciesRdc,
      m_numRxnMinorZeroed, Its>>

callVars == <<vcs_maxit, tp_maxit, iconv, retn, outcome>>

phaseIDVars == <<PhaseID, VPhase_nSpecies, phaseIDCheck, m_speciesLocalPhaseIndex>>

pyVars == <<phase_counts, solutions, base_name>>

importVars == <<kin_phases, kin_calls, import_call, import_result>>

extVars == <<pyVars, importVars>>

solverVars ==
    <<callerVars, solver, ctorError, pc, publicVars, privateVars, countVars,
      callVars, mix_reads, m_timing_print_lvl>>

vars == <<solverVars, vcs_timing_print_lvl, phaseIDVars, extVars>>

\* --------------------------------------------- the phase adapter objects
\* vcs_VolPhase, as far as vcs_solve.cpp uses it.  An adapter is a record;
\* spGlobalIndexVCS[k] is the position of local species k in the mole
\* vector the adapter is used with.
VolPhase_resize(name, iph) ==
    [nSpecies |-> phaseNSpecies(name, iph),
     phiVarIndex |-> phiVarIndex(name, iph),
     speciesUnknownType |->
         [k \in 1..phaseNSpecies(name, iph) |-> speciesUnknownType(name, iph, k)],
     spGlobalIndexVCS |->
         [k \in 1..phaseNSpecies(name, iph) |-> spGlobalIndex(name, iph, k)],
     totalMoles |-> 0,
     totalMolesInert |-> 0,
     existence |-> "EXIST_NO",
     electricPotential |-> 0,
     moleFractions |->
         [k \in 1..phaseNSpecies(name, iph) |-> <<1, phaseNSpecies(name, iph)>>]]

\* Sum of the mole numbers of the phase's mole-number species in molesVector.
PhaseMolesIn(ph, molesVector) ==
    SumSeq([k \in 1..ph.nSpecies |->
              IF ph.speciesUnknownType[k] = "MOLNUM"
              THEN molesVector[ph.spGlobalIndexVCS[k]] ELSE 0])

\* vcs_VolPhase::setMolesFromVCS: take the phase's slice of the mole vector,
\* recompute the total moles and the mole fractions, and take the voltage
\* from the slot of the voltage unknown.
setMolesFromVCS(ph, molesVector) ==
    LET tot == ph.totalMolesInert + PhaseMolesIn(ph, molesVector)
    IN  [ph EXCEPT
           !.totalMoles = tot,
           !.moleFractions =
               IF tot > 0
               THEN [k \in 1..ph.nSpecies |->
                       IF ph.speciesUnknownType[k] = "MOLNUM"
                       THEN <<molesVector[ph.spGlobalIndexVCS[k]], tot>>
                       ELSE <<0, 1>>]
               ELSE ph.moleFractions,
           !.electricPotential =
               IF ph.phiVarIndex # npos
               THEN molesVector[ph.spGlobalIndexVCS[ph.phiVarIndex]]
               ELSE ph.electricPotential]

setExistence(ph, e) == [ph EXCEPT !.existence = e]

setTotalMoles(ph, t) == [ph EXCEPT !.totalMoles = t]

setTotalMolesInert(ph, t) == [ph EXCEPT !.totalMolesInert = t]

setElectricPotential(ph, phi) == [ph EXCEPT !.electricPotential = phi]

setMoleFractionsState(ph, tot, fractions) == [ph EXCEPT !.moleFractions = fractions]

\* vcs_VolPhase::setState_TP hands the state to the ThermoPhase the adapter
\* points to: the new temperature of that ThermoPhase.
setState_TP(temps, iph, T) == [temps EXCEPT ![iph] = T]

\* ---------------------------------------------------------- constructor
\* w[kT] as the species loop of the constructor sets it.
InitialW(name, moles, phi) ==
    [kT \in 1..nSpecies(name) |->
        IF SpeciesUnknownTypeOf(name, kT) = "MOLNUM"
        THEN moles[kT]
        ELSE phi[PhaseIDOf(name, kT)]]

\* tMoles of phase iph at the end of the species loop.
tMolesOf(name, wv, iph) ==
    SumSeq([k \in 1..phaseNSpecies(name, iph) |->
              IF speciesUnknownType(name, iph, k) = "MOLNUM"
              THEN wv[spGlobalIndex(name, iph, k)] ELSE 0])

\* The uniform fraction taken over all species instead of the phase's.
InitialMoleFractions_allSpecies(name, wv) ==
    [kTa \in 1..nSpecies(name) |->
        LET iph == PhaseIDOf(name, kTa)
            tMoles == tMolesOf(name, wv, iph)
        IN  IF tMoles > 0
            THEN <<wv[kTa], tMoles>>
            ELSE <<1, nSpecies(name)>>]

\* mf[] after "assign a valid mole fraction to all phases".
InitialMoleFractions(name, wv) ==
    [kTa \in 1..nSpecies(name) |->
        LET iph == PhaseIDOf(name, kTa)
            tMoles == tMolesOf(name, wv, iph)
        IN  IF tMoles > 0
            THEN <<wv[kTa], tMoles>>
            ELSE <<1, phaseNSpecies(name, iph)>>]

\* VCS_SOLVE::set_gai: the element abundances of the initial estimate.
set_gai(name, wv) ==
    [j \in 1..nElements(name) |->
        SumSeq([kspec \in 1..nSpecies(name) |->
                  IF SpeciesUnknownTypeOf(name, kspec) # "INTERFACIALVOLTAGE"
                  THEN Mixture(name).fm[kspec][j] * wv[kspec] ELSE 0])]

\* The goal vector taken from gai without the lattice-ratio test.
GoalFromGai_noLatticeClamp(name, gai) ==
    [i \in 1..nElements(name) |-> gai[i]]

\* "Formulate the Goal Element Abundance Vector" (gai.size() != 0 branch).
GoalFromGai(name, gai) ==
    [i \in 1..nElements(name) |->
        IF Mixture(name).elType[i] = "LATTICERATIO" /\ gai[i] <= 0
        THEN 0 ELSE gai[i]]

\* The charge-neutrality loop: "throw", or the goal vector with the small
\* residuals set to zero.
ChargeNeutralityThrows(name, goal) ==
    \E i \in 1..nElements(name) :
        /\ Mixture(name).elType[i] = "CHARGENEUTRALITY"
        /\ goal[i] # 0
        /\ Abs(goal[i]) > ChargeNeutralityTol

\* The loop without the assignment that zeroes a small residual.
ChargeNeutralityGoal_noclamp(name, goal) == goal

ChargeNeutralityGoal(name, goal) ==
    [i \in 1..nElements(name) |->
        IF Mixture(name).elType[i] = "CHARGENEUTRALITY" /\ goal[i] # 0
        THEN 0 ELSE goal[i]]

\* The formula-matrix copy loop with the flag set once, before the loop.
ZeroFormulaRow_flagNotReset(name) ==
    \A i \in 1..nSpecies(name) :
        \A j \in 1..nElements(name) : Mixture(name).fm[i][j] = 0

\* The formula-matrix copy loop throws at the first all-zero row.
ZeroFormulaRow(name) ==
    \E i \in 1..nSpecies(name) :
        \A j \in 1..nElements(name) : Mixture(name).fm[i][j] = 0

\* numPhSp[] after the first n species of the map went through the loop.
RECURSIVE numPhSp(_, _, _)
numPhSp(pid, n, numPhases) ==
    IF n = 0 THEN [iph \in 1..numPhases |-> 0]
    ELSE LET prev == numPhSp(pid, n - 1, numPhases)
         IN  [prev EXCEPT ![pid[n]] = @ + 1]

\* m_speciesLocalPhaseIndex[kspec] = numPhSp[iph], taken before the counter
\* is incremented (a 0-based index, so the model adds 1).
LocalPhaseIndex(pid, numPhases) ==
    [kspec \in 1..Len(pid) |-> numPhSp(pid, kspec - 1, numPhases)[pid[kspec]] + 1]

\* The check of the map without the comparison of the species counts.
PhaseIDCheck_noCount(pid, numPhases, declared) ==
    IF \E kspec \in 1..Len(pid) : pid[kspec] > numPhases \/ pid[kspec] = npos
    THEN "bad_phaseid"
    ELSE "none"

\* The species-to-phase mapping checks: a phase index out of range (npos, the
\* value the map is filled with, is the largest index) throws in the first
\* loop, a species count that differs from the adapter's throws in
\* the second.
PhaseIDCheck(pid, numPhases, declared) ==
    IF \E kspec \in 1..Len(pid) : pid[kspec] > numPhases \/ pid[kspec] = npos
    THEN "bad_phaseid"
    ELSE IF \E iph \in 1..numPhases :
              numPhSp(pid, Len(pid), numPhases)[iph] # declared[iph]
         THEN "phase_count_mismatch"
         ELSE "none"

\* The map and the counts the constructor's phase loop leaves.
PhaseIDVector(name) == [kspec \in 1..nSpecies(name) |-> PhaseIDOf(name, kspec)]

DeclaredNSpecies(name) == [iph \in 1..nPhases(name) |-> phaseNSpecies(name, iph)]

PhaseIDError(name) ==
    PhaseIDCheck(PhaseIDVector(name), nPhases(name), DeclaredNSpecies(name))

\* What the constructor has read from the mixture when it returns or throws:
\* the member initializers read the counts and the state of the mixture, the
\* phase loop reads the phases and their species.
ConstructorReads_checkAfterLoop(name) ==
    {"nSpecies", "nPhases", "temperature", "pressure", "volume"}
      \cup (IF nPhases(name) > 0 THEN {"phase"} ELSE {})
      \cup (IF nSpecies(name) > 0 THEN {"species"} ELSE {})

ConstructorReads(name) ==
    {"nSpecies", "nPhases", "temperature", "pressure", "volume"}
      \cup (IF nSpecies(name) <= 0 \/ nPhases(name) <= 0 THEN {}
            ELSE {"phase", "species"})

\* "if (vcs_timing_print_lvl == 0) m_timing_print_lvl = 0".
TimingLevelAtConstruction(globalLvl) == IF globalLvl = 0 THEN 0 ELSE 1

\* The first error the constructor throws, in source order, or "none".
ConstructorError(name, moles, phi) ==
    LET wv == InitialW(name, moles, phi)
        goal == GoalFromGai(name, set_gai(name, wv))
    IN  IF nSpecies(name) <= 0 THEN "nsp_nonpositive"
        ELSE IF nPhases(name) <= 0 THEN "nphases_nonpositive"
        ELSE IF nElements(name) = 0 THEN "goal_not_specified"
        ELSE IF PhaseIDError(name) # "none" THEN PhaseIDError(name)
        ELSE IF ChargeNeutralityThrows(name, goal) THEN "charge_neutrality"
        ELSE IF ZeroFormulaRow(name) THEN "zero_formula_row"
        ELSE "none"

\* base.pyx not imported: no Solution object, the counter empty.
NoSolutions ==
    /\ phase_counts = <<>>
    /\ solutions = <<>>
    /\ base_name = <<>>

\* importKinetics.cpp not called: a kinetics manager without phases, no call
\* made on it.
NoCall ==
    [fn |-> "none", k |-> "null",
     p |-> [id |-> "", phaseArray |-> <<>>, validate |-> FALSE,
            rarrays |-> <<>>],
     th |-> <<>>, check_for_duplicates |-> FALSE, malformed |-> {},
     phases |-> <<>>]

NoImport ==
    /\ kin_phases = <<>>
    /\ kin_calls = <<>>
    /\ import_call = NoCall
    /\ import_result = "none"

\* VPhaseList[iphase] at the end of the constructor's phase loop.
InitialVolPhase(name, iph, wv, phi) ==
    setMolesFromVCS(
        setElectricPotential(
            setTotalMoles(VolPhase_resize(name, iph), 0),
            phi[iph]),
        wv)

Init ==
    /\ mix_name \in MixtureNames
    /\ mix_moles \in {m \in [1..nSpecies(mix_name) -> 0..MaxMoles] :
                        \A k \in 1..nSpecies(mix_name) :
                            SpeciesUnknownTypeOf(mix_name, k) # "MOLNUM" => m[k] = 0}
    /\ mix_temperature = 300
    /\ phase_temp = [iph \in 1..nPhases(mix_name) |-> 300]
    /\ phase_phi \in {p \in [1..nPhases(mix_name) -> Potentials] :
                        \A iph \in 1..nPhases(mix_name) :
                            phiVarIndex(mix_name, iph) = npos => p[iph] = 0}
    /\ solver = "none"
    /\ ctorError = "none"
    /\ pc = "idle"
    /\ w = <<>> /\ mf = <<>> /\ m_gibbsSpecies = <<>> /\ VPhaseList = <<>>
    /\ m_molNumSpecies_old = <<>> /\ m_speciesMapIndex = <<>>
    /\ m_speciesStatus = <<>> /\ m_speciesUnknownType = <<>>
    /\ m_feSpecies_old = <<>> /\ m_elemAbundancesGoal = <<>>
    /\ m_formulaMatrix = <<>> /\ m_VolPhaseList = <<>>
    /\ m_temperature = 0
    /\ m_numComponents = 0 /\ m_numRxnTot = 0 /\ m_numRxnRdc = 0
    /\ m_numSpeciesRdc = 0 /\ m_numRxnMinorZeroed = 0 /\ Its = 0
    /\ vcs_maxit = 0 /\ tp_maxit = 0 /\ iconv = 0 /\ retn = 0
    /\ outcome = "none"
    /\ mix_reads = {}
    /\ vcs_timing_print_lvl = 1
    /\ m_timing_print_lvl = 1
    /\ PhaseID = <<>> /\ VPhase_nSpecies = <<>>
    /\ phaseIDCheck = "unchecked"
    /\ m_speciesLocalPhaseIndex = <<>>
    /\ NoSolutions
    /\ NoImport

\* VCS_SOLVE::VCS_SOLVE(MultiPhase* mphase, int printLvl)
Construct ==
    /\ solver = "none"
    /\ LET name == mix_name
             err == ConstructorError(name, mix_moles, phase_phi)
             wv == InitialW(name, mix_moles, phase_phi)
         IN  /\ ctorError' = err
             /\ solver' = IF err = "none" THEN "ready" ELSE "failed"
             /\ phase_temp' =
                  IF nSpecies(name) <= 0 \/ nPhases(name) <= 0
                  THEN phase_temp
                  ELSE [iph \in 1..nPhases(name) |-> mix_temperature]
             /\ IF err = "none"
                THEN /\ w' = wv
                     /\ mf' = InitialMoleFractions(name, wv)
                     /\ m_gibbsSpecies' = Mixture(name).mu
                     /\ VPhaseList' =
                          [iph \in 1..nPhases(name) |->
                             InitialVolPhase(name, iph, wv, phase_phi)]
                     /\ m_molNumSpecies_old' = wv
                     /\ m_speciesMapIndex' = [i \in 1..nSpecies(name) |-> i]
                     /\ m_speciesStatus' = [i \in 1..nSpecies(name) |-> "MAJOR"]
                     /\ m_speciesUnknownType' =
                          [i \in 1..nSpecies(name) |-> SpeciesUnknownTypeOf(name, i)]
                     /\ m_feSpecies_old' = [i \in 1..nSpecies(name) |-> 0]
                     /\ m_elemAbundancesGoal' =
                          ChargeNeutralityGoal(name,
                              GoalFromGai(name, set_gai(name, wv)))
                     /\ m_formulaMatrix' = Mixture(name).fm
                     /\ m_VolPhaseList' =
                          [iph \in 1..nPhases(name) |->
                             InitialVolPhase(name, iph, wv, phase_phi)]
                     /\ m_temperature' = mix_temperature
                ELSE UNCHANGED <<publicVars, privateVars>>
             /\ mix_reads' = ConstructorReads(name)
             /\ m_timing_print_lvl' =
                  IF nSpecies(name) <= 0 \/ nPhases(name) <= 0
                  THEN m_timing_print_lvl
                  ELSE TimingLevelAtConstruction(vcs_timing_print_lvl)
             /\ IF err \in {"nsp_nonpositive", "nphases_nonpositive",
                            "goal_not_specified"}
                THEN UNCHANGED phaseIDVars
                ELSE /\ PhaseID' = PhaseIDVector(name)
                     /\ VPhase_nSpecies' = DeclaredNSpecies(name)
                     /\ phaseIDCheck' = PhaseIDError(name)
                     /\ m_speciesLocalPhaseIndex' =
                          IF PhaseIDError(name) = "none"
                          THEN LocalPhaseIndex(PhaseIDVector(name), nPhases(name))
                          ELSE m_speciesLocalPhaseIndex
    /\ UNCHANGED <<mix_name, mix_moles, mix_temperature, phase_phi, pc,
                   countVars, callVars, vcs_timing_print_lvl>>
    /\ UNCHANGED extVars

\* The PhaseID block of the constructor taken alone, on any map and any
\* declared counts: no solver exists, only the block's inputs are drawn.
InitPhaseID ==
    /\ mix_name = "EMPTY"
    /\ mix_moles = <<>> /\ mix_temperature = 300
    /\ phase_temp = <<>> /\ phase_phi = <<>>
    /\ solver = "none" /\ ctorError = "none" /\ pc = "idle"
    /\ w = <<>> /\ mf = <<>> /\ m_gibbsSpecies = <<>> /\ VPhaseList = <<>>
    /\ m_molNumSpecies_old = <<>> /\ m_speciesMapIndex = <<>>
    /\ m_speciesStatus = <<>> /\ m_speciesUnknownType = <<>>
    /\ m_feSpecies_old = <<>> /\ m_elemAbundancesGoal = <<>>
    /\ m_formulaMatrix = <<>> /\ m_VolPhaseList = <<>>
    /\ m_temperature = 0
    /\ m_numComponents = 0 /\ m_numRxnTot = 0 /\ m_numRxnRdc = 0
    /\ m_numSpeciesRdc = 0 /\ m_numRxnMinorZeroed = 0 /\ Its = 0
    /\ vcs_maxit = 0 /\ tp_maxit = 0 /\ iconv = 0 /\ retn = 0
    /\ outcome = "none"
    /\ mix_reads = {}
    /\ vcs_timing_print_lvl = 1
    /\ m_timing_print_lvl = 1
    /\ \E nsp \in 1..MaxPidSpecies, nph \in 1..MaxPidPhases :
          /\ PhaseID \in [1..nsp -> {npos} \cup 1..(nph + 1)]
          /\ VPhase_nSpecies \in [1..nph -> 0..MaxPidSpecies]
    /\ phaseIDCheck = "unchecked"
    /\ m_speciesLocalPhaseIndex = <<>>
    /\ NoSolutions
    /\ NoImport

\* "PhaseID: Fill in the species to phase mapping. Check for bad values at
\* the same time."
CheckPhaseID ==
    /\ phaseIDCheck = "unchecked"
    /\ phaseIDCheck' =
         PhaseIDCheck(PhaseID, Len(VPhase_nSpecies), VPhase_nSpecies)
    /\ m_speciesLocalPhaseIndex' =
         IF PhaseIDCheck(PhaseID, Len(VPhase_nSpecies), VPhase_nSpecies) = "none"
         THEN LocalPhaseIndex(PhaseID, Len(VPhase_nSpecies))
         ELSE m_speciesLocalPhaseIndex
    /\ UNCHANGED <<solverVars, vcs_timing_print_lvl, PhaseID, VPhase_nSpecies>>
    /\ UNCHANGED extVars

SpecPhaseID == InitPhaseID /\ [][CheckPhaseID]_vars

\* ------------------------------------------------------- basis optimizer
\* The internal species arrays that a position switch moves together.
Internal(mol, map, status, type, fe, fm, phases) ==
    [mol |-> mol, map |-> map, status |-> status, type |-> type, fe |-> fe,
     fm |-> fm, phases |-> phases]

SwapSeq(s, k1, k2) == [s EXCEPT ![k1] = s[k2], ![k2] = s[k1]]

\* A position switch that copies the map entry of k2 to k1 and leaves the
\* entry of k2 as it was.
vcs_switch_pos_mapOneWay(I, k1, k2) ==
    [mol |-> SwapSeq(I.mol, k1, k2),
     map |-> [I.map EXCEPT ![k1] = I.map[k2]],
     status |-> SwapSeq(I.status, k1, k2),
     type |-> SwapSeq(I.type, k1, k2),
     fe |-> SwapSeq(I.fe, k1, k2),
     fm |-> SwapSeq(I.fm, k1, k2),
     phases |-> I.phases]

\* vcs_switch_pos: exchange internal positions k1 and k2 in every species
\* array and in the private adapters' global indices.
vcs_switch_pos(I, k1, k2) ==
    [mol |-> SwapSeq(I.mol, k1, k2),
     map |-> SwapSeq(I.map, k1, k2),
     status |-> SwapSeq(I.status, k1, k2),
     type |-> SwapSeq(I.type, k1, k2),
     fe |-> SwapSeq(I.fe, k1, k2),
     fm |-> SwapSeq(I.fm, k1, k2),
     phases |->
        [iph \in 1..Len(I.phases) |->
           [I.phases[iph] EXCEPT !.spGlobalIndexVCS =
              [k \in 1..I.phases[iph].nSpecies |->
                 LET g == I.phases[iph].spGlobalIndexVCS[k]
                 IN  IF g = k1 THEN k2 ELSE IF g = k2 THEN k1 ELSE g]]]]

\* Determinant of the square matrix made of the columns c of the rows.
Det(rows, c) ==
    CASE Len(rows) = 1 -> rows[1][c[1]]
      [] Len(rows) = 2 ->
           rows[1][c[1]] * rows[2][c[2]] - rows[1][c[2]] * rows[2][c[1]]
      [] OTHER ->
           rows[1][c[1]] * (rows[2][c[2]] * rows[3][c[3]] - rows[2][c[3]] * rows[3][c[2]])
         - rows[1][c[2]] * (rows[2][c[1]] * rows[3][c[3]] - rows[2][c[3]] * rows[3][c[1]])
         + rows[1][c[3]] * (rows[2][c[1]] * rows[3][c[2]] - rows[2][c[2]] * rows[3][c[1]])

\* The rows are linearly independent: some square minor is nonzero.
FullRowRank(rows, nel) ==
    \/ Len(rows) = 0
    \/ /\ Len(rows) <= nel
       /\ \E c \in [1..Len(rows) -> 1..nel] :
            /\ \A a, b \in 1..Len(rows) : a < b => c[a] < c[b]
            /\ Det(rows, c) # 0

\* vcs_basopt: fill the component positions 1..nc one after the other with
\* the species of largest mole number that is independent of the components
\* already chosen; among equal mole numbers the lowest original index wins.
RECURSIVE vcs_basopt(_, _, _, _)
vcs_basopt(I, j, nc, nel) ==
    IF j > nc THEN I
    ELSE LET cand == {k \in j..Len(I.mol) :
                        FullRowRank(SubSeq(I.fm, 1, j - 1) \o <<I.fm[k]>>, nel)}
         IN  IF cand = {} THEN I
             ELSE LET best == CHOOSE k \in cand :
                                \A k2 \in cand :
                                   \/ I.mol[k] > I.mol[k2]
                                   \/ (I.mol[k] = I.mol[k2] /\ I.map[k] <= I.map[k2])
                  IN  vcs_basopt(IF best = j THEN I ELSE vcs_switch_pos(I, j, best),
                                 j + 1, nc, nel)

\* ------------------------------------------------- the iteration engine
\* Element abundances of a mole vector in internal order.
ElemAbundances(mol, type, fm, nel) ==
    [e \in 1..nel |->
        SumSeq([k \in 1..Len(mol) |->
                  IF type[k] # "INTERFACIALVOLTAGE" THEN fm[k][e] * mol[k] ELSE 0])]

\* Sum over the elements of |goal - abundance|.
ElemResidual(mol, type, fm, goal) ==
    LET ab == ElemAbundances(mol, type, fm, Len(goal))
    IN  SumSeq([e \in 1..Len(goal) |-> Abs(goal[e] - ab[e])])

\* The unit changes of the mole-number unknowns that keep them nonnegative.
StepsOf(mol, type) ==
    {d \in [1..Len(mol) -> {-1, 0, 1}] :
        /\ \E k \in 1..Len(mol) : d[k] # 0
        /\ \A k \in 1..Len(mol) :
             /\ type[k] # "MOLNUM" => d[k] = 0
             /\ type[k] = "MOLNUM" => mol[k] + d[k] >= 0}

AddStep(mol, d) == [k \in 1..Len(mol) |-> mol[k] + d[k]]

\* Steps that bring the element abundances closer to the goal.
CorrectionSteps(mol, type, fm, goal) ==
    {d \in StepsOf(mol, type) :
        ElemResidual(AddStep(mol, d), type, fm, goal)
            < ElemResidual(mol, type, fm, goal)}

\* Steps along reactions (element conserving) with a negative Gibbs change.
DescentSteps(mol, type, fm, fe, goal) ==
    {d \in StepsOf(mol, type) :
        /\ ElemResidual(AddStep(mol, d), type, fm, goal) = 0
        /\ SumSeq([k \in 1..Len(mol) |-> fe[k] * d[k]]) < 0}

\* Species status for the current mole numbers.
SpeciesStatusOf(I) ==
    [k \in 1..Len(I.mol) |->
        LET ph == CHOOSE p \in {I.phases[iph] : iph \in 1..Len(I.phases)} :
                      \E kl \in 1..p.nSpecies : p.spGlobalIndexVCS[kl] = k
        IN  IF I.type[k] = "INTERFACIALVOLTAGE" THEN "MAJOR"
            ELSE IF PhaseMolesIn(ph, I.mol) = 0 THEN "ZEROED"
            ELSE IF I.mol[k] > 0 THEN "MAJOR"
            ELSE "MINOR"]

\* Chemical potentials of the external phases, in internal order.
ChemPotentials(name, map) == [k \in 1..Len(map) |-> Mixture(name).mu[map[k]]]

\* The engine's bookkeeping after the mole numbers changed: re-select the
\* basis when a component ran out, refresh potentials, adapters and status.
Refresh(name, I, nc, reopt) ==
    LET J == IF reopt THEN vcs_basopt(I, 1, nc, nElements(name)) ELSE I
        K == [J EXCEPT !.fe = ChemPotentials(name, J.map),
                       !.phases = [iph \in 1..Len(J.phases) |->
                                      setMolesFromVCS(J.phases[iph], J.mol)]]
    IN  [K EXCEPT !.status = SpeciesStatusOf(K)]

ComponentDepleted(I, nc) ==
    \E j \in 1..nc : I.type[j] = "MOLNUM" /\ I.mol[j] = 0

CurrentInternal ==
    Internal(m_molNumSpecies_old, m_speciesMapIndex, m_speciesStatus,
             m_speciesUnknownType, m_feSpecies_old, m_formulaMatrix,
             m_VolPhaseList)

SetInternal(I) ==
    /\ m_molNumSpecies_old' = I.mol
    /\ m_speciesMapIndex' = I.map
    /\ m_speciesStatus' = I.status
    /\ m_speciesUnknownType' = I.type
    /\ m_feSpecies_old' = I.fe
    /\ m_formulaMatrix' = I.fm
    /\ m_VolPhaseList' = I.phases

\* ------------------------------------------------ vcs_prob_specifyFully
\* invSpecies[m_speciesMapIndex[k]] = k for k = 0..nsp-1, on a zero-filled
\* vector: the last k wins, an index never written stays at the first slot.
invSpecies(map) ==
    [i \in 1..Len(map) |->
        IF \E k \in 1..Len(map) : map[k] = i
        THEN CHOOSE k \in 1..Len(map) :
                /\ map[k] = i
                /\ \A k2 \in 1..Len(map) : map[k2] = i => k2 <= k
        ELSE 1]

\* m_gibbsSpecies[invSpecies[kT]] = muPhase[k], kT running over all species.
specifyFully_gibbs(gibbs, map, mu) ==
    LET inv == invSpecies(map)
    IN  [j \in 1..Len(gibbs) |->
           IF \E kT \in 1..Len(mu) : inv[kT] = j
           THEN mu[CHOOSE kT \in 1..Len(mu) :
                      /\ inv[kT] = j
                      /\ \A k2 \in 1..Len(mu) : inv[k2] = j => k2 <= kT]
           ELSE gibbs[j]]

\* The existence state vcs_prob_specifyFully computes for a phase object.
specifyFully_existence(volPhase) ==
    IF volPhase.nSpecies = 1 /\ volPhase.phiVarIndex = 1
    THEN "EXIST_ALWAYS"
    ELSE IF volPhase.totalMoles > 0 THEN "EXIST_YES" ELSE "EXIST_NO"

\* The phase objects vcs_prob_specifyFully sets the existence state on.
specifyFully_phases(pubPhases) ==
    [iphase \in 1..Len(pubPhases) |->
        setExistence(pubPhases[iphase], specifyFully_existence(pubPhases[iphase]))]

\* The number of reactions without the test for more elements than species.
specifyFully_numRxnTot_unguarded(nelem, nsp) == nsp - nelem

\* m_numRxnTot: the number of noncomponents, zero when there are more
\* elements than species.
specifyFully_numRxnTot(nelem, nsp) ==
    IF nelem > nsp THEN 0 ELSE nsp - nelem

\* ------------------------------------------------------ vcs_prob_update
\* vcs_VolTotal: push the mole vector into every private adapter.
vcs_VolTotal(phases, molesVector) ==
    [iphase \in 1..Len(phases) |-> setMolesFromVCS(phases[iphase], molesVector)]

\* The index search without its break: k1 ends at the last index.
K1Of_nobreak(map, i) == Len(map)

\* "Find the index of I in the index vector": the first j with
\* m_speciesMapIndex[j] == i, or the last index when there is none.
K1Of(map, i) ==
    IF \E j \in 1..Len(map) : map[j] = i
    THEN CHOOSE j \in 1..Len(map) :
            /\ map[j] = i
            /\ \A j2 \in 1..Len(map) : map[j2] = i => j <= j2
    ELSE Len(map)

\* The write-back without the index search: slot i read for species i.
update_w_unpermuted(name, map, mol) ==
    [i \in 1..Len(map) |->
        IF SpeciesUnknownTypeOf(name, i) # "INTERFACIALVOLTAGE"
        THEN mol[i] ELSE 0]

update_w(name, map, mol) ==
    [i \in 1..Len(map) |->
        IF SpeciesUnknownTypeOf(name, i) # "INTERFACIALVOLTAGE"
        THEN mol[K1Of(map, i)] ELSE 0]

update_gibbs(map, fe) == [i \in 1..Len(map) |-> fe[K1Of(map, i)]]

\* The public phase object after the four setters of the phase loop.
update_pubPhase(pubPhase, vPhase) ==
    setMoleFractionsState(
        setElectricPotential(
            setTotalMoles(
                setTotalMolesInert(pubPhase, vPhase.totalMolesInert),
                vPhase.totalMoles),
            vPhase.electricPotential),
        vPhase.totalMoles, vPhase.moleFractions)

\* The cross-checks of one phase without the check of the total moles.
update_failPoint_noTotal(pubPhase, vPhase, wNew, mol) ==
    LET pub == update_pubPhase(pubPhase, vPhase)
        bad == {k \in 1..pub.nSpecies :
                  \/ /\ pub.phiVarIndex = k
                     /\ pub.electricPotential # mol[vPhase.spGlobalIndexVCS[k]]
                  \/ ~FracEq(pub.moleFractions[k], vPhase.moleFractions[k])}
    IN  IF bad # {} THEN CHOOSE k \in bad : \A k2 \in bad : k <= k2
        ELSE 0

\* Where the cross-checks of one phase throw: the local species index of the
\* first failing voltage or mole-fraction check, nSpecies+1 for the check of
\* the total moles after the loop, 0 when nothing throws.
update_failPoint(pubPhase, vPhase, wNew, mol) ==
    LET pub == update_pubPhase(pubPhase, vPhase)
        bad == {k \in 1..pub.nSpecies :
                  \/ /\ pub.phiVarIndex = k
                     /\ pub.electricPotential # mol[vPhase.spGlobalIndexVCS[k]]
                  \/ ~FracEq(pub.moleFractions[k], vPhase.moleFractions[k])}
        sumMoles == pub.totalMolesInert + PhaseMolesIn(pub, wNew)
    IN  IF bad # {} THEN CHOOSE k \in bad : \A k2 \in bad : k <= k2
        ELSE IF sumMoles # vPhase.totalMoles THEN pub.nSpecies + 1
        ELSE 0

\* The phase loop run to its end before the error is raised: the last phase
\* whose cross-checks fail.
update_failPhase_atEnd(pubPhases, vPhases, wNew, mol) ==
    LET bad == {iph \in 1..Len(pubPhases) :
                  update_failPoint(pubPhases[iph], vPhases[iph], wNew, mol) # 0}
    IN  IF bad = {} THEN 0 ELSE CHOOSE iph \in bad : \A i2 \in bad : iph >= i2

\* The first phase whose cross-checks throw, 0 when none does.
update_failPhase(pubPhases, vPhases, wNew, mol) ==
    LET bad == {iph \in 1..Len(pubPhases) :
                  update_failPoint(pubPhases[iph], vPhases[iph], wNew, mol) # 0}
    IN  IF bad = {} THEN 0 ELSE CHOOSE iph \in bad : \A i2 \in bad : iph <= i2

\* State::setTemperature on one of the caller's phase objects, between calls.
SetPhaseTemperature ==
    /\ solver = "ready"
    /\ pc = "idle"
    /\ \E iph \in 1..nPhases(mix_name), T \in Temperatures :
         /\ phase_temp[iph] # T
         /\ phase_temp' = [phase_temp EXCEPT ![iph] = T]
    /\ UNCHANGED <<mix_name, mix_moles, mix_temperature, phase_phi, solver,
                   ctorError, pc, publicVars, privateVars, countVars, callVars>>
    /\ UNCHANGED <<mix_reads, m_timing_print_lvl, vcs_timing_print_lvl, phaseIDVars>>
    /\ UNCHANGED extVars

\* The private adapter's index taken for kT.
update_mfIndex_private(pubPhase, vPhase, k) == vPhase.spGlobalIndexVCS[k]

\* kT = pubPhase->spGlobalIndexVCS(k): where mf[] takes the fraction of
\* local species k.
update_mfIndex(pubPhase, vPhase, k) == pubPhase.spGlobalIndexVCS[k]

\* mf[] after the phase loop; the loop stops where a cross-check throws.
update_mf(mfOld, pubPhases, vPhases, failPhase, failPoints) ==
    LET done(iph, k) ==
            \/ failPhase = 0
            \/ iph < failPhase
            \/ (iph = failPhase /\ k <= failPoints[iph])
        writers(kT) ==
            {x \in {<<iph, k>> : iph \in 1..Len(pubPhases), k \in 1..Len(mfOld)} :
                /\ x[2] <= pubPhases[x[1]].nSpecies
                /\ done(x[1], x[2])
                /\ update_mfIndex(pubPhases[x[1]], vPhases[x[1]], x[2]) = kT}
        last(kT) ==
            CHOOSE x \in writers(kT) :
                \A y \in writers(kT) :
                    y[1] < x[1] \/ (y[1] = x[1] /\ y[2] <= x[2])
    IN  [kT \in 1..Len(mfOld) |->
           IF writers(kT) = {} THEN mfOld[kT]
           ELSE vPhases[last(kT)[1]].moleFractions[last(kT)[2]]]

\* vcs(ipr, ip1, maxit): the cap handed to vcs_TP.
vcs_TP_maxit_swapped(ipr, ip1, maxit) == ipr

vcs_TP_maxit(ipr, ip1, maxit) == maxit

\* What vcs returns after vcs_TP returned iconvArg.
vcs_return_its(iconvArg, its) == IF iconvArg < 0 THEN its ELSE iconvArg

vcs_return_success(iconvArg, its) == VCS_SUCCESS

vcs_return(iconvArg, its) == iconvArg

\* vcs(): vcs_prob_specifyFully, vcs_prep and the entry of vcs_TP.
Vcs_Start ==
    /\ solver = "ready"
    /\ pc = "idle"
    /\ \E ipr \in {0, 1}, maxit \in 0..MaxIt, prepStatus \in {VCS_SUCCESS, VCS_PUB_BAD} :
         LET name == mix_name
             nsp == nSpecies(name)
             nel == nElements(name)
             nc == Min(nel, nsp)
         IN  \* vcs_prob_specifyFully
             /\ m_temperature' = mix_temperature
             /\ phase_temp' = [iph \in 1..nPhases(name) |->
                                 setState_TP(phase_temp, iph, mix_temperature)[iph]]
             /\ m_gibbsSpecies' =
                  specifyFully_gibbs(m_gibbsSpecies, m_speciesMapIndex, Mixture(name).mu)
             /\ VPhaseList' = specifyFully_phases(VPhaseList)
             /\ m_numSpeciesRdc' = nsp
             /\ m_numRxnTot' = specifyFully_numRxnTot(nel, nsp)
             /\ m_numRxnRdc' = specifyFully_numRxnTot(nel, nsp)
             /\ m_numRxnMinorZeroed' = 0
             /\ IF prepStatus # 0
                THEN \* vcs_prep reported a bad status: bail
                     /\ retn' = prepStatus
                     /\ outcome' = "returned"
                     /\ UNCHANGED <<pc, m_molNumSpecies_old, m_speciesMapIndex,
                                    m_speciesStatus, m_speciesUnknownType,
                                    m_feSpecies_old, m_formulaMatrix,
                                    m_VolPhaseList, m_numComponents, Its,
                                    vcs_maxit, tp_maxit, iconv>>
                ELSE \* vcs_prep chose the basis; vcs_TP starts
                     /\ \E I1 \in {Refresh(name, CurrentInternal, nc, TRUE)} :
                           SetInternal(I1)
                     /\ m_numComponents' = nc
                     /\ Its' = 0
                     /\ vcs_maxit' = maxit
                     /\ tp_maxit' = vcs_TP_maxit(ipr, 0, maxit)
                     /\ pc' = "tp"
                     /\ outcome' = "running"
                     /\ UNCHANGED <<iconv, retn>>
    /\ UNCHANGED <<mix_name, mix_moles, mix_temperature, phase_phi, solver,
                   ctorError, w, mf, m_elemAbundancesGoal>>
    /\ UNCHANGED <<mix_reads, m_timing_print_lvl, vcs_timing_print_lvl, phaseIDVars>>
    /\ UNCHANGED extVars

\* One pass of the loop of vcs_TP: give up at the cap, otherwise count the
\* iteration and either stop (converged, range-space error) or take a step.
VcsTP_Iterate ==
    /\ pc = "tp"
    /\ \E I \in {CurrentInternal} :
         LET resid == ElemResidual(I.mol, I.type, I.fm, m_elemAbundancesGoal)
             steps == IF resid # 0
                      THEN CorrectionSteps(I.mol, I.type, I.fm, m_elemAbundancesGoal)
                      ELSE DescentSteps(I.mol, I.type, I.fm, I.fe, m_elemAbundancesGoal)
         IN  IF Its >= tp_maxit
             THEN /\ iconv' = VCS_FAILED_CONVERGENCE
                  /\ pc' = "update"
                  /\ UNCHANGED <<Its, m_molNumSpecies_old, m_speciesMapIndex,
                                 m_speciesStatus, m_speciesUnknownType,
                                 m_feSpecies_old, m_formulaMatrix, m_VolPhaseList>>
             ELSE /\ Its' = Its + 1
                  /\ \E S \in {steps} :
                       IF S = {}
                       THEN /\ iconv' = IF resid # 0 THEN VCS_RANGE_ERROR ELSE VCS_SUCCESS
                            /\ pc' = "update"
                            /\ UNCHANGED <<m_molNumSpecies_old, m_speciesMapIndex,
                                           m_speciesStatus, m_speciesUnknownType,
                                           m_feSpecies_old, m_formulaMatrix,
                                           m_VolPhaseList>>
                       ELSE /\ \E d \in S :
                                 \E J \in {[I EXCEPT !.mol = AddStep(I.mol, d)]} :
                                    \E K \in {Refresh(mix_name, J, m_numComponents,
                                                      ComponentDepleted(J, m_numComponents))} :
                                       SetInternal(K)
                            /\ UNCHANGED <<iconv, pc>>
    /\ UNCHANGED <<callerVars, solver, ctorError, publicVars,
                   m_elemAbundancesGoal, m_temperature, m_numComponents,
                   m_numRxnTot, m_numRxnRdc, m_numSpeciesRdc,
                   m_numRxnMinorZeroed, vcs_maxit, tp_maxit, retn, outcome>>
    /\ UNCHANGED <<mix_reads, m_timing_print_lvl, vcs_timing_print_lvl, phaseIDVars>>
    /\ UNCHANGED extVars

\* vcs() after vcs_TP returned: vcs_prob_update, then return iconv; an
\* inconsistency found by vcs_prob_update leaves vcs() by an exception.
Vcs_Finish ==
    /\ pc = "update"
    /\ \E vPhases \in {vcs_VolTotal(m_VolPhaseList, m_molNumSpecies_old)},
          wNew \in {update_w(mix_name, m_speciesMapIndex, m_molNumSpecies_old)} :
         LET failPhase == update_failPhase(VPhaseList, vPhases, wNew, m_molNumSpecies_old)
             failPoint(iph) ==
               update_failPoint(VPhaseList[iph], vPhases[iph], wNew, m_molNumSpecies_old)
         IN  /\ m_VolPhaseList' = vPhases
             /\ phase_temp' = [iph \in 1..Len(phase_temp) |->
                                 setState_TP(phase_temp, iph, m_temperature)[iph]]
             /\ w' = wNew
             /\ m_gibbsSpecies' = update_gibbs(m_speciesMapIndex, m_feSpecies_old)
             /\ VPhaseList' =
                  [iph \in 1..Len(VPhaseList) |->
                     IF failPhase = 0 \/ iph <= failPhase
                     THEN update_pubPhase(VPhaseList[iph], vPhases[iph])
                     ELSE VPhaseList[iph]]
             /\ mf' = update_mf(mf, VPhaseList, vPhases, failPhase,
                                [iph \in 1..Len(VPhaseList) |-> failPoint(iph)])
             /\ IF failPhase = 0
                THEN /\ outcome' = "returned"
                     /\ retn' = vcs_return(iconv, Its)
                ELSE /\ outcome' = "threw"
                     /\ UNCHANGED retn
    /\ pc' = "idle"
    /\ vcs_maxit' = 0
    /\ tp_maxit' = 0
    /\ UNCHANGED <<mix_name, mix_moles, mix_temperature, phase_phi, solver,
                   ctorError, m_molNumSpecies_old, m_speciesMapIndex,
                   m_speciesStatus, m_speciesUnknownType, m_feSpecies_old,
                   m_elemAbundancesGoal, m_formulaMatrix, m_temperature,
                   countVars, iconv>>
    /\ UNCHANGED <<mix_reads, m_timing_print_lvl, vcs_timing_print_lvl, phaseIDVars>>
    /\ UNCHANGED extVars

Next ==
    \/ Construct
    \/ Vcs_Start
    \/ VcsTP_Iterate
    \/ Vcs_Finish

Spec == Init /\ [][Next]_vars

\* The same program with a caller that also changes the temperature of its
\* phase objects between calls.
NextCaller ==
    \/ Next
    \/ SetPhaseTemperature

SpecCaller == Init /\ [][NextCaller]_vars

\* m_speciesMapIndex holds every species index once.
MapIsPermutation ==
    \A i \in 1..Len(m_speciesMapIndex) :
        \E j \in 1..Len(m_speciesMapIndex) : m_speciesMapIndex[j] = i

\* vcs_TP handing over a species map that no longer matches its mole vector:
\* the logic bug the cross-checks of vcs_prob_update are there to catch.
VcsTP_MapFault ==
    /\ pc = "update"
    /\ outcome = "running"
    /\ MapIsPermutation
    /\ \E j \in 1..Len(m_speciesMapIndex), i \in 1..Len(m_speciesMapIndex) :
         /\ m_speciesMapIndex[j] # i
         /\ m_speciesMapIndex' = [m_speciesMapIndex EXCEPT ![j] = i]
    /\ outcome' = "inconsistent"
    /\ UNCHANGED <<callerVars, solver, ctorError, pc, publicVars,
                   m_molNumSpecies_old, m_speciesStatus, m_speciesUnknownType,
                   m_feSpecies_old, m_elemAbundancesGoal, m_formulaMatrix,
                   m_VolPhaseList, m_temperature, countVars,
                   vcs_maxit, tp_maxit, iconv, retn>>
    /\ UNCHANGED <<mix_reads, m_timing_print_lvl, vcs_timing_print_lvl, phaseIDVars>>
    /\ UNCHANGED extVars

\* The program with an engine that can leave such a map; a solver is followed
\* up to the end of the solve in which that happens.
NextFault ==
    \/ Construct
    \/ (MapIsPermutation /\ Vcs_Start)
    \/ VcsTP_Iterate
    \/ Vcs_Finish
    \/ VcsTP_MapFault

SpecFault == Init /\ [][NextFault]_vars

\* VCS_SOLVE::disableTiming(): the static member function sets the global.
disableTiming ==
    /\ pc = "idle"
    /\ vcs_timing_print_lvl # 0
    /\ vcs_timing_print_lvl' = 0
    /\ UNCHANGED <<solverVars, phaseIDVars>>
    /\ UNCHANGED extVars

\* The program with a caller that may turn the timing off at any time between
\* calls, before or after it constructs the solver.
NextTiming ==
    \/ Next
    \/ disableTiming

SpecTiming == Init /\ [][NextTiming]_vars

\* ------------------------------------------------------------- base.pyx
\* No solver and no mixture: the state the other programs start from.
NoSolver ==
    /\ mix_name = "EMPTY"
    /\ mix_moles = <<>> /\ mix_temperature = 300
    /\ phase_temp = <<>> /\ phase_phi = <<>>
    /\ solver = "none" /\ ctorError = "none" /\ pc = "idle"
    /\ w = <<>> /\ mf = <<>> /\ m_gibbsSpecies = <<>> /\ VPhaseList = <<>>
    /\ m_molNumSpecies_old = <<>> /\ m_speciesMapIndex = <<>>
    /\ m_speciesStatus = <<>> /\ m_speciesUnknownType = <<>>
    /\ m_feSpecies_old = <<>> /\ m_elemAbundancesGoal = <<>>
    /\ m_formulaMatrix = <<>> /\ m_VolPhaseList = <<>>
    /\ m_temperature = 0
    /\ m_numComponents = 0 /\ m_numRxnTot = 0 /\ m_numRxnRdc = 0
    /\ m_numSpeciesRdc = 0 /\ m_numRxnMinorZeroed = 0 /\ Its = 0
    /\ vcs_maxit = 0 /\ tp_maxit = 0 /\ iconv = 0 /\ retn = 0
    /\ outcome = "none"
    /\ mix_reads = {}
    /\ vcs_timing_print_lvl = 1
    /\ m_timing_print_lvl = 1
    /\ PhaseID = <<>> /\ VPhase_nSpecies = <<>>
    /\ phaseIDCheck = "unchecked"
    /\ m_speciesLocalPhaseIndex = <<>>

\* The phase identifiers of the input files (thermo.id()), the names a caller
\* passes as the keyword 'name' (<<>> when it passes none) and the selections
\* it slices with.
PhaseIds == {"gas", "gas_1"}

ExplicitNames == {"mix"}

NameArgs == {<<>>} \cup {<<n>> : n \in ExplicitNames}

Selections == {<<>>, <<1>>, <<2, 1>>}

\* _phase_counts after _SolutionBase.__init__ ran for an object of phase
\* phase_name.
init_phase_counts(counts, phase_name, name) ==
    IF name # <<>> THEN counts
    ELSE IF phase_name \in DOMAIN counts
         THEN [counts EXCEPT ![phase_name] = @ + 1]
         ELSE [id \in DOMAIN counts \cup {phase_name} |->
                 IF id = phase_name THEN 0 ELSE counts[id]]

\* The name _SolutionBase.__init__ hands to the setter of the property name.
init_name(counts, phase_name, name) ==
    IF name # <<>> THEN name[1]
    ELSE IF phase_name \in DOMAIN counts
         THEN phase_name \o "_" \o ToString(counts[phase_name] + 1)
         ELSE phase_name

InitSolution ==
    /\ NoSolver
    /\ NoSolutions
    /\ NoImport

\* A Solution constructed from an input file: __cinit__ makes a new base
\* object and an empty selection, __init__ names it.
NewSolution ==
    /\ Len(solutions) < MaxSolutions
    /\ \E phase_id \in PhaseIds, name \in NameArgs :
         /\ base_name' =
              Append(base_name, init_name(phase_counts, phase_id, name))
         /\ phase_counts' = init_phase_counts(phase_counts, phase_id, name)
         /\ solutions' =
              Append(solutions,
                     [base |-> Len(base_name) + 1, id |-> phase_id,
                      selected |-> <<>>])
    /\ UNCHANGED <<solverVars, vcs_timing_print_lvl, phaseIDVars, importVars>>

\* _SolutionBase.__getitem__: self.__class__(origin=self) runs __cinit__,
\* which shares the base and copies the selection, and then __init__ without
\* a name; the copy's selection is then set.
getitem ==
    /\ Len(solutions) < MaxSolutions
    /\ \E self \in 1..Len(solutions), selection \in Selections :
         LET other == solutions[self]
         IN  /\ base_name' =
                  [base_name EXCEPT
                     ![other.base] = init_name(phase_counts, other.id, <<>>)]
             /\ phase_counts' = init_phase_counts(phase_counts, other.id, <<>>)
             /\ solutions' =
                  Append(solutions,
                         [base |-> other.base, id |-> other.id,
                          selected |-> selection])
    /\ UNCHANGED <<solverVars, vcs_timing_print_lvl, phaseIDVars, importVars>>

NextSolution ==
    \/ NewSolution
    \/ getitem

SpecSolution == InitSolution /\ [][NextSolution]_vars

\* --------------------------------------------------- importKinetics.cpp
\* The characters of the strings that are reaction ids or bounds of an
\* include element, and the value of each character (std::string compares
\* character values).
chars ==
    ("" :> <<>>) @@ ("*" :> <<"*">>) @@ ("1" :> <<"1">>) @@ ("2" :> <<"2">>)
    @@ ("9" :> <<"9">>) @@ ("10" :> <<"1", "0">>) @@ ("1*" :> <<"1", "*">>)

CharCode ==
    ("*" :> 42) @@ ("0" :> 48) @@ ("1" :> 49) @@ ("2" :> 50) @@ ("9" :> 57)

\* The reaction elements of the data source, in document order, the values
\* of the attributes min and max of an include element, and the phase ids.
ReactionData == <<"1", "10", "2", "9">>

IncludeBounds == {"1", "9", "10", "1*"}

ImportPhaseIds == {"gas", "surf"}

\* std::string operator< and operator<= on character sequences.
RECURSIVE StrLess(_, _)
StrLess(a, b) ==
    IF b = <<>> THEN FALSE
    ELSE IF a = <<>> THEN TRUE
    ELSE IF CharCode[a[1]] # CharCode[b[1]]
         THEN CharCode[a[1]] < CharCode[b[1]]
         ELSE StrLess(Tail(a), Tail(b))

\* A comparison of the numbers the digits denote (a string without digits
\* counts as 0), which the code does not make.
RECURSIVE NumVal(_)
NumVal(a) ==
    IF a = <<>> THEN 0
    ELSE IF a[Len(a)] = "*" THEN NumVal(SubSeq(a, 1, Len(a) - 1))
    ELSE 10 * NumVal(SubSeq(a, 1, Len(a) - 1)) + (CharCode[a[Len(a)]] - 48)

StrLeq_numeric(a, b) == NumVal(a) <= NumVal(b)

StrLeq(a, b) == a = b \/ StrLess(a, b)

\* imin.find("*"): the position of the first '*', npos without one.
find_wild(a) ==
    IF \E q \in 1..Len(a) : a[q] = "*"
    THEN CHOOSE q \in 1..Len(a) :
            a[q] = "*" /\ \A r \in 1..(q - 1) : a[r] # "*"
    ELSE npos

\* a.substr(0, iwild) for the position iwild of a character.
substr0(a, iwild) == SubSeq(a, 1, Min(iwild - 1, Len(a)))

\* imin, imax and iwild of one include element, as the inner loop uses them.
WildRange(min, max, iwild) ==
    IF iwild # npos
    THEN [imin |-> substr0(min, iwild), imax |-> substr0(min, iwild),
          iwild |-> iwild]
    ELSE [imin |-> min, imax |-> max, iwild |-> iwild]

IncludeRange(ii) ==
    WildRange(chars[ii.min], chars[ii.max],
              IF ii.max = ii.min THEN find_wild(chars[ii.min]) ELSE npos)

\* The test of one reaction id against the range of one include element.
InRange(range, rxid) == StrLeq(range.imin, rxid) /\ StrLeq(rxid, range.imax)

Included(range, id) ==
    InRange(range,
            IF range.iwild # npos THEN substr0(chars[id], range.iwild)
            ELSE chars[id])

KinCall(name, arg) == [call |-> name, arg |-> arg]

\* The addReaction calls of one include element, then of all of them.
AddReactions(picked) ==
    [i \in 1..Len(picked) |-> KinCall("addReaction", picked[i])]

IncludeCalls(range, allrxns) ==
    LET Test(id) == Included(range, id)
    IN  AddReactions(SelectSeq(allrxns, Test))

RECURSIVE InclCalls(_, _)
InclCalls(incl, allrxns) ==
    IF incl = <<>> THEN <<>>
    ELSE IncludeCalls(IncludeRange(Head(incl)), allrxns)
         \o InclCalls(Tail(incl), allrxns)

\* The calls made for one reactionArray element.
ArrayCalls(rxns) ==
    (IF rxns.skip THEN <<KinCall("skipUndeclaredSpecies", "")>> ELSE <<>>)
    \o (IF rxns.incl = <<>>
        THEN AddReactions(rxns.allrxns)
        ELSE InclCalls(rxns.incl, rxns.allrxns))

RECURSIVE ArraysCalls(_)
ArraysCalls(rarrays) ==
    IF rarrays = <<>> THEN <<>>
    ELSE ArrayCalls(Head(rarrays)) \o ArraysCalls(Tail(rarrays))

\* What follows the loop over the reactionArray elements.
InstallTail_finalizeFirst(check_for_duplicates) ==
    <<KinCall("finalize", "")>>
    \o (IF check_for_duplicates THEN <<KinCall("checkDuplicates", "")>>
        ELSE <<>>)

InstallTail(check_for_duplicates) ==
    (IF check_for_duplicates THEN <<KinCall("checkDuplicates", "")>>
     ELSE <<>>)
    \o <<KinCall("finalize", "")>>

\* The calls of installReactionArrays when no reaction is malformed.
InstallCalls(p, check_for_duplicates) ==
    IF p.rarrays = <<>> THEN <<KinCall("finalize", "")>>
    ELSE ArraysCalls(p.rarrays) \o InstallTail(check_for_duplicates)

\* installReactionArrays: newReaction throws for a malformed reaction
\* element, before addReaction is called with it.
CutAtMalformed(full, malformed, returned) ==
    LET Bad(i) == full[i].call = "addReaction" /\ full[i].arg \in malformed
    IN  IF \E i \in 1..Len(full) : Bad(i)
        THEN [calls |->
                SubSeq(full, 1,
                       (CHOOSE i \in 1..Len(full) :
                           Bad(i) /\ \A j \in 1..(i - 1) : ~Bad(j)) - 1),
              result |-> "CanteraError"]
        ELSE [calls |-> full, result |-> returned]

installReactionArrays(p, check_for_duplicates, malformed) ==
    CutAtMalformed(InstallCalls(p, check_for_duplicates), malformed,
                   IF p.rarrays = <<>> THEN "false" ELSE "true")

\* Kinetics::phaseIndex: the index of the manager's phase with this id.
phaseIndex(phases, phase_id) ==
    IF \E i \in 1..Len(phases) : phases[i] = phase_id
    THEN CHOOSE i \in 1..Len(phases) :
            phases[i] = phase_id /\ \A j \in 1..(i - 1) : phases[j] # phase_id
    ELSE npos

\* One pass of the inner loop over the supplied ThermoPhase objects.
SuppliedStep_addAlways(acc, th_id, phase_id) ==
    IF th_id = phase_id
    THEN [phases |-> Append(acc.phases, th_id),
          calls |-> Append(acc.calls, KinCall("addPhase", th_id)),
          phase_ok |-> TRUE]
    ELSE acc

SuppliedStep(acc, th_id, phase_id) ==
    IF th_id = phase_id
    THEN IF phaseIndex(acc.phases, phase_id) = npos
         THEN [phases |-> Append(acc.phases, th_id),
               calls |-> Append(acc.calls, KinCall("addPhase", th_id)),
               phase_ok |-> TRUE]
         ELSE [acc EXCEPT !.phase_ok = TRUE]
    ELSE acc

RECURSIVE SuppliedLoop(_, _, _)
SuppliedLoop(acc, th, phase_id) ==
    IF th = <<>> THEN acc
    ELSE SuppliedLoop(SuppliedStep(acc, Head(th), phase_id), Tail(th),
                      phase_id)

\* The loop over the referenced phase ids; it ends at the first id that no
\* supplied object has.
RECURSIVE ReferencedLoop(_, _, _)
ReferencedNext(found, phase_ids, th) ==
    IF found.phase_ok THEN ReferencedLoop(found, phase_ids, th) ELSE found

ReferencedLoop(acc, phase_ids, th) ==
    IF phase_ids = <<>> THEN acc
    ELSE ReferencedNext(SuppliedLoop([acc EXCEPT !.phase_ok = FALSE], th,
                                     Head(phase_ids)),
                        Tail(phase_ids), th)

\* The place of init() among the calls of importKinetics.
ImportSequence_initFirst(phaseCalls, installCalls) ==
    <<KinCall("init", "")>> \o phaseCalls \o installCalls

ImportSequence(phaseCalls, installCalls) ==
    phaseCalls \o <<KinCall("init", "")>> \o installCalls

\* importKinetics after the loop over the referenced phases: the throw, or
\* init() and the installation of the reactions.
ImportAfterPhases(added, phase, malformed) ==
    IF ~added.phase_ok
    THEN [calls |-> added.calls, phases |-> added.phases,
          result |-> "CanteraError"]
    ELSE LET check_for_duplicates == phase.validate
             inst == installReactionArrays(phase, check_for_duplicates,
                                           malformed)
         IN  [calls |-> ImportSequence(added.calls, inst.calls),
              phases |-> added.phases, result |-> inst.result]

importKinetics(k, phase, th, phases, malformed) ==
    IF k = "null"
    THEN [calls |-> <<>>, phases |-> phases, result |-> "false"]
    ELSE ImportAfterPhases(
             ReferencedLoop([phases |-> phases, calls |-> <<>>,
                             phase_ok |-> TRUE],
                            phase.phaseArray \o <<phase.id>>, th),
             phase, malformed)

\* The include lists of a reactionArray element, the reactionArray elements
\* and the phase elements the calls are made with.
IncludeElements == [min : IncludeBounds, max : IncludeBounds]

InclLists == UNION {[1..n -> IncludeElements] : n \in 0..MaxIncl}

ReactionArrays ==
    [incl : InclLists, allrxns : {ReactionData}, skip : BOOLEAN]

SecondArrays ==
    [incl : {<<>>, <<[min |-> "1", max |-> "9"]>>,
             <<[min |-> "1*", max |-> "1*"]>>},
     allrxns : {ReactionData}, skip : {FALSE}]

ArrayLists ==
    {<<>>} \cup {<<a>> : a \in ReactionArrays}
           \cup {<<a, b>> : a \in SecondArrays, b \in SecondArrays}

ImportArrayLists ==
    {<<>>} \cup {<<a>> : a \in SecondArrays}
           \cup {<<a, a>> : a \in SecondArrays}

PhaseArrays == {<<>>, <<"gas">>, <<"surf">>, <<"gas", "gas">>}

SuppliedPhases ==
    {<<>>, <<"gas">>, <<"surf">>, <<"gas", "surf">>, <<"gas", "gas">>}

MalformedSets == {{}, {"2"}}

\* A kinetics manager that has no phase or already has the phase gas.
InitImport ==
    /\ NoSolver
    /\ NoSolutions
    /\ kin_phases \in {<<>>, <<"gas">>}
    /\ kin_calls = <<>>
    /\ import_call = NoCall
    /\ import_result = "none"

\* One call of importKinetics.
ImportKinetics ==
    /\ import_result = "none"
    /\ \E k \in {"null", "kin"}, id \in ImportPhaseIds,
          phaseArray \in PhaseArrays, validate \in BOOLEAN,
          rarrays \in ImportArrayLists, th \in SuppliedPhases,
          malformed \in MalformedSets :
         \E phase \in {[id |-> id, phaseArray |-> phaseArray,
                        validate |-> validate, rarrays |-> rarrays]} :
         \E done \in {importKinetics(k, phase, th, kin_phases, malformed)} :
             /\ import_call' =
                  [fn |-> "importKinetics", k |-> k, p |-> phase, th |-> th,
                   check_for_duplicates |-> validate,
                   malformed |-> malformed, phases |-> kin_phases]
             /\ kin_phases' = done.phases
             /\ kin_calls' = done.calls
             /\ import_result' = done.result
    /\ UNCHANGED <<solverVars, vcs_timing_print_lvl, phaseIDVars, pyVars>>

\* One call of installReactionArrays on a manager that was initialised.
InstallReactionArrays ==
    /\ import_result = "none"
    /\ \E id \in ImportPhaseIds, rarrays \in ArrayLists,
          check_for_duplicates \in BOOLEAN, malformed \in MalformedSets :
         \E p \in {[id |-> id, phaseArray |-> <<>>, validate |-> FALSE,
                    rarrays |-> rarrays]} :
         \E done \in {installReactionArrays(p, check_for_duplicates,
                                            malformed)} :
             /\ import_call' =
                  [fn |-> "installReactionArrays", k |-> "kin", p |-> p,
                   th |-> <<>>,
                   check_for_duplicates |-> check_for_duplicates,
                   malformed |-> malformed, phases |-> kin_phases]
             /\ kin_calls' = done.calls
             /\ import_result' = done.result
             /\ UNCHANGED kin_phases
    /\ UNCHANGED <<solverVars, vcs_timing_print_lvl, phaseIDVars, pyVars>>

NextImport ==
    \/ ImportKinetics
    \/ InstallReactionArrays

SpecImport == InitImport /\ [][NextImport]_vars

\* ================================================================ claims
\* A call of vcs() that ran vcs_TP and came back through vcs_prob_update.
SolveReturned ==
    /\ solver = "ready"
    /\ pc = "idle"
    /\ outcome = "returned"
    /\ retn # VCS_PUB_BAD

\* The rule for the existence state of a phase.
ExistenceRule(ph) ==
    IF ph.nSpecies = 1 /\ ph.phiVarIndex = 1 THEN "EXIST_ALWAYS"
    ELSE IF ph.totalMoles > 0 THEN "EXIST_YES"
    ELSE "EXIST_NO"

\* C1: every call of vcs() that returns hands back 0, 1 or a negative
\* status, on the early-return paths too.
C1_StatusCode ==
    outcome = "returned" => (retn = 0 \/ retn = 1 \/ retn < 0)

C1_Witness ==
    /\ pc = "idle"
    /\ outcome = "returned"
    /\ retn = VCS_RANGE_ERROR

\* C2: while a solve is in the loop of vcs_TP the iteration count stays at or
\* below the cap the caller passed, which is the cap vcs_TP works with; every
\* pass of the loop either leaves the loop or counts one more iteration, and
\* the write-back that follows ends the call.
C2_IterationCap ==
    /\ [](pc \in {"tp", "update"} => (Its <= vcs_maxit /\ tp_maxit = vcs_maxit))
    /\ [][pc = "tp" => (pc' = "update" \/ (pc' = "tp" /\ Its' = Its + 1))]_vars
    /\ [][pc = "update" => pc' = "idle"]_vars

C2_Witness ==
    /\ pc = "update"
    /\ iconv = VCS_FAILED_CONVERGENCE
    /\ vcs_maxit = MaxIt
    /\ Its = MaxIt

\* C3: when vcs_TP came back with 1 or a negative status, the call returns
\* that status through vcs_prob_update and does not throw.
C3_RecoverableReturned ==
    [][(pc = "update" /\ iconv # VCS_SUCCESS /\ pc' = "idle")
          => (outcome' = "returned" /\ retn' = iconv)]_vars

C3_Witness ==
    /\ pc = "idle"
    /\ outcome = "returned"
    /\ retn = VCS_FAILED_CONVERGENCE
    /\ m_speciesMapIndex # [k \in 1..Len(m_speciesMapIndex) |-> k]

\* C4: between the end of construction and the write-back, no step of the
\* solver changes the caller's mixture or phase objects.
C4_PrivateCopiesOnly ==
    [][(Vcs_Start \/ VcsTP_Iterate) => UNCHANGED callerVars]_vars

\* C5: after a solve that returned 0, for every element the formula-weighted
\* sum of the mole numbers of the species that are not voltage unknowns is
\* the goal abundance fixed at construction.
C5_ElementConservation ==
    (SolveReturned /\ retn = VCS_SUCCESS) =>
        \A e \in 1..nElements(mix_name) :
            SumSeq([k \in 1..nSpecies(mix_name) |->
                      IF SpeciesUnknownTypeOf(mix_name, k) # "INTERFACIALVOLTAGE"
                      THEN Mixture(mix_name).fm[k][e] * w[k] ELSE 0])
              = m_elemAbundancesGoal[e]

C5_Witness ==
    /\ SolveReturned
    /\ retn = VCS_SUCCESS
    /\ Its >= 2
    /\ w # InitialW(mix_name, mix_moles, phase_phi)

\* C6: the mole number of every species whose unknown is a mole number is
\* nonnegative, in the solver's vector and in the vector written back.
C6_Nonnegative ==
    solver = "ready" =>
        /\ \A k \in 1..Len(m_molNumSpecies_old) :
              m_speciesUnknownType[k] = "MOLNUM" => m_molNumSpecies_old[k] >= 0
        /\ \A i \in 1..Len(w) :
              SpeciesUnknownTypeOf(mix_name, i) = "MOLNUM" => w[i] >= 0

C6_Witness ==
    /\ SolveReturned
    /\ Its >= 2
    /\ \E k \in 1..Len(m_molNumSpecies_old) :
          /\ m_molNumSpecies_old[k] < 0
          /\ m_speciesMapIndex[k] # k

\* C7 as stated: after a solve the fractions of every phase that exists sum
\* to 1, every species of a phase with no moles is Zeroed, and mf[] holds the
\* private adapter's fractions.
C7_Normalization_AsStated ==
    SolveReturned =>
        \A iph \in 1..Len(m_VolPhaseList) :
            LET vPhase == m_VolPhaseList[iph]
            IN  /\ ExistenceRule(vPhase) # "EXIST_NO" =>
                      LET sum == FracSum(vPhase.moleFractions)
                      IN  sum[2] > 0 /\ sum[1] = sum[2]
                /\ vPhase.totalMoles = 0 =>
                      \A k \in 1..vPhase.nSpecies :
                          m_speciesStatus[vPhase.spGlobalIndexVCS[k]] = "ZEROED"
                /\ \A k \in 1..vPhase.nSpecies :
                      FracEq(mf[VPhaseList[iph].spGlobalIndexVCS[k]],
                             vPhase.moleFractions[k])

\* C7: after a solve the fractions of every phase that exists sum to 1,
\* every species of a phase that does not exist (no moles, and not the phase
\* of a single voltage species) is Zeroed, and mf[] holds the private
\* adapter's fractions.
C7_Normalization ==
    SolveReturned =>
        \A iph \in 1..Len(m_VolPhaseList) :
            LET vPhase == m_VolPhaseList[iph]
            IN  /\ ExistenceRule(vPhase) # "EXIST_NO" =>
                      LET sum == FracSum(vPhase.moleFractions)
                      IN  sum[2] > 0 /\ sum[1] = sum[2]
                /\ ExistenceRule(vPhase) = "EXIST_NO" =>
                      \A k \in 1..vPhase.nSpecies :
                          m_speciesStatus[vPhase.spGlobalIndexVCS[k]] = "ZEROED"
                /\ \A k \in 1..vPhase.nSpecies :
                      FracEq(mf[VPhaseList[iph].spGlobalIndexVCS[k]],
                             vPhase.moleFractions[k])

C7_Witness ==
    /\ SolveReturned
    /\ Its >= 2
    /\ \E iph \in 1..Len(m_VolPhaseList) :
          /\ m_VolPhaseList[iph].totalMoles = 0
          /\ m_VolPhaseList[iph].phiVarIndex = npos
    /\ \E iph \in 1..Len(m_VolPhaseList) :
          /\ m_VolPhaseList[iph].totalMoles > 0
          /\ m_VolPhaseList[iph].spGlobalIndexVCS # VPhaseList[iph].spGlobalIndexVCS

\* C8: the constructor leaves in mf[] the fraction 1/nSpeciesInPhase for
\* every species of a phase whose initial moles are zero, and otherwise the
\* species' initial moles over the phase total, so that the phase sums to 1.
C8_InitialMoleFractions ==
    (solver = "ready" /\ outcome = "none") =>
        \A iph \in 1..nPhases(mix_name) :
            LET n == phaseNSpecies(mix_name, iph)
                kTof(k) == spGlobalIndex(mix_name, iph, k)
                tot == SumSeq([k \in 1..n |-> mix_moles[kTof(k)]])
            IN  /\ \A k \in 1..n :
                      /\ mf[kTof(k)][2] > 0
                      /\ IF tot = 0
                         THEN mf[kTof(k)][1] * n = mf[kTof(k)][2]
                         ELSE mf[kTof(k)][1] * tot = mix_moles[kTof(k)] * mf[kTof(k)][2]
                /\ LET sum == FracSum([k \in 1..n |-> mf[kTof(k)]])
                   IN  sum[2] > 0 /\ sum[1] = sum[2]

C8_Witness ==
    /\ solver = "ready"
    /\ outcome = "none"
    /\ \E iph \in 1..nPhases(mix_name) :
          /\ phaseNSpecies(mix_name, iph) > 1
          /\ tMolesOf(mix_name, w, iph) = 0
    /\ \E iph \in 1..nPhases(mix_name) : tMolesOf(mix_name, w, iph) > 0

C10_ChargeNeutralityGoal ==
    LET name == mix_name
        resid(e) ==
            SumSeq([k \in 1..nSpecies(name) |->
                      IF SpeciesUnknownTypeOf(name, k) # "INTERFACIALVOLTAGE"
                      THEN Mixture(name).fm[k][e] * mix_moles[k] ELSE 0])
        cn == {e \in 1..nElements(name) :
                  Mixture(name).elType[e] = "CHARGENEUTRALITY"}
    IN  /\ solver = "ready" =>
              \A e \in cn : m_elemAbundancesGoal[e] = 0
        /\ (solver # "none" /\ \E e \in cn : Abs(resid(e)) > ChargeNeutralityTol) =>
              (solver = "failed" /\ ctorError = "charge_neutrality")
        /\ (solver = "failed" /\ ctorError = "charge_neutrality") =>
              \E e \in cn : Abs(resid(e)) > ChargeNeutralityTol

C10_Witness ==
    /\ solver = "ready"
    /\ \E e \in 1..nElements(mix_name) :
          /\ Mixture(mix_name).elType[e] = "CHARGENEUTRALITY"
          /\ SumSeq([k \in 1..nSpecies(mix_name) |->
                       Mixture(mix_name).fm[k][e] * mix_moles[k]]) # 0


\* C11: construction fails whenever some species has an all-zero row in the
\* formula matrix; in a constructed solver every species has a nonzero entry
\* and the solver's matrix holds, entry by entry, the matrix built from the
\* phases (the row of species k being the row of the species now at k).
C11_ZeroFormulaRow ==
    /\ (solver # "none"
          /\ \E i \in 1..nSpecies(mix_name) :
                \A j \in 1..nElements(mix_name) : Mixture(mix_name).fm[i][j] = 0)
         => solver = "failed"
    /\ solver = "ready" =>
         /\ Len(m_formulaMatrix) = nSpecies(mix_name)
         /\ \A k \in 1..nSpecies(mix_name) :
               /\ Len(m_formulaMatrix[k]) = nElements(mix_name)
               /\ \A j \in 1..nElements(mix_name) :
                     m_formulaMatrix[k][j] =
                         Mixture(mix_name).fm[m_speciesMapIndex[k]][j]
               /\ \E j \in 1..nElements(mix_name) : m_formulaMatrix[k][j] # 0

\* A mixture with an all-zero row beside a nonzero one was rejected for it.
C11_Witness ==
    /\ solver = "failed"
    /\ ctorError = "zero_formula_row"
    /\ \E i \in 1..nSpecies(mix_name) : \E j \in 1..nElements(mix_name) :
          Mixture(mix_name).fm[i][j] # 0

\* C12: construction from a mixture with zero species or zero phases fails on
\* the count check, and the constructor has then read only the mixture's
\* counts and state, no phase and no species of it.
C12_EmptyMixtureRejected ==
    (solver # "none" /\ (nSpecies(mix_name) = 0 \/ nPhases(mix_name) = 0)) =>
        /\ solver = "failed"
        /\ ctorError \in {"nsp_nonpositive", "nphases_nonpositive"}
        /\ mix_reads \cap {"phase", "species"} = {}

\* A mixture that has a phase to read, but no species, was rejected.
C12_Witness ==
    /\ solver = "failed"
    /\ ctorError = "nsp_nonpositive"
    /\ nPhases(mix_name) > 0
    /\ "nSpecies" \in mix_reads

\* C13: the PhaseID block fails if the map holds a phase index outside the
\* phases, or if the number of species mapped to some phase differs from the
\* count that phase declares; when it succeeds the local index of every
\* species is the number of lower-indexed species of the same phase (the
\* model's indices start at 1).
C13_PhaseIDChecked ==
    phaseIDCheck # "unchecked" =>
        LET nph == Len(VPhase_nSpecies)
            nsp == Len(PhaseID)
        IN  /\ (\E k \in 1..nsp : PhaseID[k] = npos \/ PhaseID[k] > nph)
                 => phaseIDCheck # "none"
            /\ (\E iph \in 1..nph :
                   Cardinality({k \in 1..nsp : PhaseID[k] = iph})
                       # VPhase_nSpecies[iph])
                 => phaseIDCheck # "none"
            /\ phaseIDCheck = "none" =>
                 /\ Len(m_speciesLocalPhaseIndex) = nsp
                 /\ \A k \in 1..nsp :
                      m_speciesLocalPhaseIndex[k] - 1 =
                          Cardinality({j \in 1..(k - 1) : PhaseID[j] = PhaseID[k]})

\* A map that interleaves two phases passed the block, and a species got a
\* local index that differs from its global one.
C13_Witness ==
    /\ solver = "none"
    /\ phaseIDCheck = "none"
    /\ Len(VPhase_nSpecies) = 2
    /\ \E k \in 1..Len(PhaseID) :
         /\ m_speciesLocalPhaseIndex[k] = 2
         /\ k = 3
         /\ PhaseID[2] # PhaseID[k]

\* The formula-weighted sum of the mixture's moles over the non-voltage
\* species, for element e.
InitialAbundance(e) ==
    SumSeq([k \in 1..nSpecies(mix_name) |->
              IF SpeciesUnknownTypeOf(mix_name, k) # "INTERFACIALVOLTAGE"
              THEN Mixture(mix_name).fm[k][e] * mix_moles[k] ELSE 0])

\* C14 as the documentation states it: after construction the goal of every
\* element is the formula-weighted sum of the initial moles.
C14_GoalIsSum_AsStated ==
    (solver = "ready" /\ outcome = "none") =>
        \A e \in 1..nElements(mix_name) :
            m_elemAbundancesGoal[e] = InitialAbundance(e)

\* C14: after construction the goal of an element is the formula-weighted sum
\* of the initial moles of the non-voltage species, except that a
\* charge-neutrality element has the goal 0 (its sum was within the tolerance,
\* else construction failed) and a lattice-ratio element whose sum is not
\* positive has the goal 0; construction fails for a missing abundance
\* specification exactly when the mixture has species and phases but no
\* element.
C14_GoalFromEstimate ==
    /\ (solver = "ready" /\ outcome = "none") =>
         \A e \in 1..nElements(mix_name) :
            m_elemAbundancesGoal[e] =
                IF Mixture(mix_name).elType[e] = "CHARGENEUTRALITY"
                THEN 0
                ELSE IF Mixture(mix_name).elType[e] = "LATTICERATIO"
                          /\ InitialAbundance(e) <= 0
                     THEN 0
                     ELSE InitialAbundance(e)
    /\ solver = "ready" =>
         \A e \in 1..nElements(mix_name) :
            Mixture(mix_name).elType[e] = "CHARGENEUTRALITY"
                => Abs(InitialAbundance(e)) <= ChargeNeutralityTol
    /\ solver # "none" =>
         (ctorError = "goal_not_specified"
            <=> (nSpecies(mix_name) > 0 /\ nPhases(mix_name) > 0
                   /\ nElements(mix_name) = 0))

\* A solver was constructed whose lattice-ratio element has a negative sum and
\* the goal 0, beside an element whose goal is its positive sum.
C14_Witness ==
    /\ solver = "ready"
    /\ outcome = "none"
    /\ \E e \in 1..nElements(mix_name) :
         /\ Mixture(mix_name).elType[e] = "LATTICERATIO"
         /\ InitialAbundance(e) < 0
         /\ m_elemAbundancesGoal[e] = 0
    /\ \E e \in 1..nElements(mix_name) :
         /\ InitialAbundance(e) > 0
         /\ m_elemAbundancesGoal[e] = InitialAbundance(e)

\* C15: a solve that comes back from vcs_prob_update with a status code left
\* no discrepancy behind: in every phase the mole fractions written back are
\* the private adapter's, the inert moles plus the written-back moles of the
\* non-voltage species are the adapter's total moles, and the voltage unknown
\* is the phase's electric potential. A solve with a discrepancy throws.
C15_CrossChecksSurfaced ==
    SolveReturned =>
        \A iph \in 1..Len(VPhaseList) :
            LET pub == VPhaseList[iph]
                vPhase == m_VolPhaseList[iph]
            IN  /\ \A k \in 1..pub.nSpecies :
                      FracEq(mf[pub.spGlobalIndexVCS[k]], vPhase.moleFractions[k])
                /\ pub.totalMolesInert + PhaseMolesIn(pub, w) = vPhase.totalMoles
                /\ \A k \in 1..pub.nSpecies :
                      pub.phiVarIndex = k =>
                          pub.electricPotential =
                              m_molNumSpecies_old[vPhase.spGlobalIndexVCS[k]]

\* A solve whose written-back moles do not add up to the adapter's total
\* ended with the error.
C15_Witness ==
    /\ pc = "idle"
    /\ outcome = "threw"
    /\ \E iph \in 1..Len(VPhaseList) :
         VPhaseList[iph].totalMolesInert + PhaseMolesIn(VPhaseList[iph], w)
             # m_VolPhaseList[iph].totalMoles

\* C16 as the documentation states it: a write-back that throws leaves the
\* public arrays and the public phase objects as they were before it started.
C16_NoPartialMutation_AsStated ==
    [][(pc = "update" /\ outcome' = "threw") => UNCHANGED publicVars]_vars

\* C16: a write-back that throws has already overwritten the public mole
\* numbers and chemical potentials of all species and the public phase
\* objects up to the first phase whose cross-check fails; the phase objects after
\* that phase, and the mole fractions of their species, are as they were
\* before the write-back started.
C16_PartialWriteBack ==
    [][(pc = "update" /\ outcome' = "threw") =>
         /\ \A i \in 1..Len(w') :
              /\ w'[i] = IF SpeciesUnknownTypeOf(mix_name, i) # "INTERFACIALVOLTAGE"
                         THEN m_molNumSpecies_old[K1Of(m_speciesMapIndex, i)]
                         ELSE 0
              /\ m_gibbsSpecies'[i] = m_feSpecies_old[K1Of(m_speciesMapIndex, i)]
         /\ \E f \in 1..Len(VPhaseList) :
              /\ VPhaseList'[f].totalMolesInert + PhaseMolesIn(VPhaseList'[f], w')
                     # m_VolPhaseList'[f].totalMoles
              /\ \A iph \in 1..(f - 1) :
                    VPhaseList'[iph].totalMolesInert
                        + PhaseMolesIn(VPhaseList'[iph], w')
                      = m_VolPhaseList'[iph].totalMoles
              /\ \A iph \in 1..f :
                    /\ VPhaseList'[iph].totalMoles = m_VolPhaseList'[iph].totalMoles
                    /\ VPhaseList'[iph].electricPotential =
                           m_VolPhaseList'[iph].electricPotential
                    /\ VPhaseList'[iph].moleFractions =
                           m_VolPhaseList'[iph].moleFractions
              /\ \A iph \in (f + 1)..Len(VPhaseList) :
                    /\ VPhaseList'[iph] = VPhaseList[iph]
                    /\ \A k \in 1..VPhaseList[iph].nSpecies :
                          mf'[VPhaseList[iph].spGlobalIndexVCS[k]] =
                              mf[VPhaseList[iph].spGlobalIndexVCS[k]]]_vars

\* A write-back threw on the first of two phases: the public moles are the
\* solve's, the second public phase still holds a total that is not the
\* private adapter's.
C16_Witness ==
    /\ pc = "idle"
    /\ outcome = "threw"
    /\ Len(VPhaseList) = 2
    /\ VPhaseList[1].totalMolesInert + PhaseMolesIn(VPhaseList[1], w)
           # m_VolPhaseList[1].totalMoles
    /\ VPhaseList[1].totalMoles = m_VolPhaseList[1].totalMoles
    /\ VPhaseList[2].totalMoles # m_VolPhaseList[2].totalMoles

\* C17: once disableTiming() has been called, every solve that runs, on a
\* solver constructed before the call or after it, has the timing print
\* level 0.
C17_TimingOffEverywhere ==
    (vcs_timing_print_lvl = 0 /\ solver = "ready" /\ pc # "idle")
        => m_timing_print_lvl = 0

\* C18: every call of vcs() starts from the species permutation and the
\* species statuses the first call started from, the identity map and all
\* species major, which is the state the constructor leaves.
C18_NoStateSurvives ==
    [][(solver = "ready" /\ pc = "idle") =>
         /\ m_speciesMapIndex = [i \in 1..nSpecies(mix_name) |-> i]
         /\ \A i \in 1..nSpecies(mix_name) : m_speciesStatus[i] = "MAJOR"]_vars

\* C19: the start of a solve sets the reaction count to nsp - nel when
\* nel <= nsp and to 0 otherwise, never a negative or wrapped value, the
\* reduced reaction count to the same number, the reduced species count to
\* nsp and the minor/zeroed count to 0; when the solve goes on, the number of
\* components is min(nel, nsp) and the reaction count is nsp minus it. (The
\* only step of a constructed solver between solves is the start of one.)
C19_Partition ==
    [][(solver = "ready" /\ pc = "idle") =>
         LET nsp == nSpecies(mix_name)
             nel == nElements(mix_name)
         IN  /\ m_numRxnTot' = IF nel <= nsp THEN nsp - nel ELSE 0
             /\ m_numRxnTot' >= 0
             /\ m_numRxnRdc' = m_numRxnTot'
             /\ m_numSpeciesRdc' = nsp
             /\ m_numRxnMinorZeroed' = 0
             /\ pc' = "tp" =>
                  /\ m_numComponents' = Min(nel, nsp)
                  /\ m_numRxnTot' = nsp - m_numComponents']_vars

\* A solve started on a mixture with more elements than species: all species
\* are components and there is no reaction.
C19_Witness ==
    /\ pc = "tp"
    /\ nElements(mix_name) > nSpecies(mix_name)
    /\ m_numComponents = nSpecies(mix_name)
    /\ m_numRxnTot = 0
    /\ m_numRxnRdc = 0
    /\ m_numSpeciesRdc = nSpecies(mix_name)

\* C23: the names given by default are unique: when every object was
\* constructed from an input file (none by slicing), no object with a default
\* name has the name of another object.
C23_UniqueDefaultNames ==
    Len(solutions) = Len(base_name) =>
        \A b1, b2 \in 1..Len(base_name) :
            (b1 # b2 /\ base_name[b1] \notin ExplicitNames)
                => base_name[b1] # base_name[b2]


\* C30: a slice leaves the objects that exist unchanged: a step that makes a
\* new object on a base that exists already changes neither the name nor the
\* selected species of any object that was there before.
C30_SliceLeavesOriginal ==
    [][(Len(solutions') = Len(solutions) + 1
            /\ Len(base_name') = Len(base_name))
          => \A s \in 1..Len(solutions) :
                 /\ base_name'[solutions'[s].base] = base_name[solutions[s].base]
                 /\ solutions'[s].selected = solutions[s].selected]_vars


\* The strings in lexical order (by character value, a prefix first), and the
\* place of a string in it.
LexOrder == <<"", "*", "1", "1*", "10", "2", "9">>

LexRank(str) == CHOOSE i \in 1..Len(LexOrder) : LexOrder[i] = str

\* An include element selects a reaction id: the id lies between min and max
\* in lexical order, or, for min = max with a wildcard, the id and the
\* pattern agree before the wildcard's position.
Selects(ii, id) ==
    IF ii.min = ii.max /\ (\E q \in DOMAIN chars[ii.min] : chars[ii.min][q] = "*")
    THEN \A q \in 1..(find_wild(chars[ii.min]) - 1) :
            /\ q \in DOMAIN chars[id]
            /\ chars[id][q] = chars[ii.min][q]
    ELSE LexRank(ii.min) <= LexRank(id) /\ LexRank(id) <= LexRank(ii.max)

\* How often the last call added the reaction id, and how often one
\* reactionArray element asks for it.
TimesAdded(id) ==
    Cardinality({i \in DOMAIN kin_calls :
                    kin_calls[i] = KinCall("addReaction", id)})

TimesAsked(rxns, id) ==
    IF rxns.incl = <<>>
    THEN Cardinality({i \in DOMAIN rxns.allrxns : rxns.allrxns[i] = id})
    ELSE Cardinality({<<n, i>> \in (DOMAIN rxns.incl) \X (DOMAIN rxns.allrxns) :
                         rxns.allrxns[i] = id /\ Selects(rxns.incl[n], id)})

\* C24: when installReactionArrays returns true, every reaction of the data
\* source was added once for each reactionArray without include elements and
\* once for each include element that selects its id in lexical order (by
\* prefix for a wildcard), and not otherwise.
C24_LexicalInclude ==
    import_result = "true" =>
        \A id \in {ReactionData[i] : i \in DOMAIN ReactionData} :
            TimesAdded(id) =
                SumSeq([n \in DOMAIN import_call.p.rarrays |->
                           TimesAsked(import_call.p.rarrays[n], id)])

\* The id "10" was added under an include element with min "1" and max "9".
C24_Witness ==
    /\ import_result = "true"
    /\ import_call.fn = "installReactionArrays"
    /\ Len(import_call.p.rarrays) = 1
    /\ import_call.p.rarrays[1].incl = <<[min |-> "1", max |-> "9"]>>
    /\ TimesAdded("10") = 1
    /\ TimesAdded("2") = 1


\* The positions of the calls of one kind in the last call's log, the phase
\* ids the last importKinetics call refers to, and whether every one of them
\* is the id of a supplied ThermoPhase.
CallsOf(name) == {i \in DOMAIN kin_calls : kin_calls[i].call = name}

Referenced ==
    {import_call.p.phaseArray[n] : n \in DOMAIN import_call.p.phaseArray}
        \cup {import_call.p.id}

AllSupplied ==
    Referenced \subseteq {import_call.th[m] : m \in DOMAIN import_call.th}

\* C25: importKinetics with a null manager returns false and does nothing;
\* with a manager and every referenced phase supplied it calls init() once,
\* after all its addPhase calls, when the manager has every referenced
\* phase, and before every addReaction.
C25_InitOnce ==
    import_call.fn = "importKinetics" =>
        IF import_call.k = "null"
        THEN /\ import_result = "false"
             /\ kin_calls = <<>>
             /\ kin_phases = import_call.phases
        ELSE AllSupplied =>
                /\ Cardinality(CallsOf("init")) = 1
                /\ \A i \in CallsOf("init") :
                      /\ \A j \in CallsOf("addPhase") : j < i
                      /\ \A j \in DOMAIN kin_calls \ CallsOf("addPhase") :
                            j >= i
                      /\ Referenced \subseteq
                            {import_call.phases[n] :
                                n \in DOMAIN import_call.phases}
                            \cup {kin_calls[j].arg : j \in 1..(i - 1)}

\* An import that added two phases, called init() and added reactions.
C25_Witness ==
    /\ import_call.fn = "importKinetics"
    /\ import_call.k = "kin"
    /\ import_result = "true"
    /\ Cardinality(CallsOf("addPhase")) = 2
    /\ CallsOf("addReaction") # {}
    /\ CallsOf("init") = {3}

\* C26: importKinetics adds a phase only when the manager has no phase with
\* its id, so no id is added twice; and when a referenced id is the id of no
\* supplied ThermoPhase it throws, without init() and without any call of
\* the installation of the reactions.
C26_PhasesOnce ==
    (import_call.fn = "importKinetics" /\ import_call.k = "kin") =>
        /\ \A i \in CallsOf("addPhase") :
              /\ kin_calls[i].arg \notin
                    {import_call.phases[n] : n \in DOMAIN import_call.phases}
              /\ \A j \in CallsOf("addPhase") :
                    kin_calls[j].arg = kin_calls[i].arg => j = i
        /\ ~AllSupplied =>
              /\ import_result = "CanteraError"
              /\ DOMAIN kin_calls = CallsOf("addPhase")

\* Two supplied objects with the id gas, gas referenced twice and the owning
\* phase not supplied: gas was added once and the import threw.
C26_Witness ==
    /\ import_call.fn = "importKinetics"
    /\ import_call.k = "kin"
    /\ import_call.th = <<"gas", "gas">>
    /\ import_call.p.phaseArray = <<"gas", "gas">>
    /\ import_call.p.id = "surf"
    /\ import_call.phases = <<>>
    /\ import_result = "CanteraError"
    /\ kin_calls = <<KinCall("addPhase", "gas")>>

\* installReactionArrays ran and returned.
InstallReturned ==
    /\ import_call.k = "kin"
    /\ import_result \in {"true", "false"}

\* C27 as stated: whenever duplicate checking is requested, checkDuplicates()
\* runs, before finalize().
C27_CheckWheneverRequested ==
    (InstallReturned /\ import_call.check_for_duplicates) =>
        /\ CallsOf("checkDuplicates") # {}
        /\ \A i \in CallsOf("checkDuplicates"), j \in CallsOf("finalize") :
              i < j

\* C27: when installReactionArrays returns, finalize() was called once and is
\* the last call; without a reactionArray element it returns false and adds
\* no reaction, otherwise it returns true; checkDuplicates() is called, once,
\* after the last addReaction and right before finalize(), exactly when it is
\* requested and there is a reactionArray element.
C27_FinalizeLast ==
    InstallReturned =>
        /\ CallsOf("finalize") = {Len(kin_calls)}
        /\ import_result = "false" <=> import_call.p.rarrays = <<>>
        /\ import_result = "false" => CallsOf("addReaction") = {}
        /\ IF import_call.check_for_duplicates
              /\ import_call.p.rarrays # <<>>
           THEN /\ CallsOf("checkDuplicates") = {Len(kin_calls) - 1}
                /\ \A i \in CallsOf("addReaction") : i < Len(kin_calls) - 1
           ELSE CallsOf("checkDuplicates") = {}

\* A call with duplicate checking that added reactions and returned true.
C27_Witness ==
    /\ import_call.fn = "installReactionArrays"
    /\ import_call.check_for_duplicates
    /\ import_result = "true"
    /\ Cardinality(CallsOf("addReaction")) >= 2
    /\ CallsOf("checkDuplicates") # {}


\* C28: the species map of a solver is a bijection of the species indices,
\* the identity before the first solve; so after a solve that came back
\* through the write-back every mole-number species has the mole number of
\* the one internal position mapped to it, and a voltage species has 0.
C28_MapBijection ==
    solver = "ready" =>
        /\ \A i \in 1..Len(m_speciesMapIndex) :
              Cardinality({j \in 1..Len(m_speciesMapIndex) :
                              m_speciesMapIndex[j] = i}) = 1
        /\ outcome = "none" =>
              m_speciesMapIndex = [i \in 1..nSpecies(mix_name) |-> i]
        /\ SolveReturned =>
              \A i \in 1..Len(w), k1 \in 1..Len(m_speciesMapIndex) :
                  m_speciesMapIndex[k1] = i =>
                      w[i] = IF SpeciesUnknownTypeOf(mix_name, i)
                                  = "INTERFACIALVOLTAGE"
                             THEN 0 ELSE m_molNumSpecies_old[k1]

\* A returned solve whose map is not the identity and whose mole numbers
\* differ between a species and the internal position of the same index.
C28_Witness ==
    /\ SolveReturned
    /\ \E i \in 1..Len(w) :
          /\ m_speciesMapIndex[i] # i
          /\ w[i] # m_molNumSpecies_old[i]
          /\ w[i] > 0


\* C29: m_gibbsSpecies is indexed by the original species index at both ends
\* of a solve: the start of a solve puts the chemical potential of every
\* species at the species' original index, where the write-back of the end
\* of a solve puts it.
C29_OneIndexConvention ==
    [][(solver = "ready" /\ pc = "idle")
          => \A kT \in 1..Len(m_gibbsSpecies') :
                 m_gibbsSpecies'[kT] = Mixture(mix_name).mu[kT]]_vars

====
